---- MODULE Spec2Model ----
(***************************************************************************)
(* A model of FreshQuant's multi-factor scoring code                       *)
(* (freshquant/factors/multiple_factor_analysis.py and                     *)
(* freshquant/general/util.py).  The library is a set of functions over    *)
(* pandas panels; every function is modelled as an operator computed the   *)
(* way the code computes it, and every specification below draws the       *)
(* arguments of one group of functions from bounded sets and calls them.   *)
(***************************************************************************)
EXTENDS Integers, Sequences, FiniteSets, TLC

VARIABLES
    fn,        \* the function of the library that has been called ("none" before the call)
    args,      \* the arguments of the call (a record, one field per parameter)
    env,       \* what the call reads from outside (reference files, library results)
    ret_val,   \* what the call returned or raised
    stdout,    \* the lines the call printed
    calls      \* the calls that returned before this one: their args and ret_val

vars == <<fn, args, env, ret_val, stdout, calls>>

(***************************************************************************)
(* Floating point values.  A value is <<kind, n, d, e>>: the number        *)
(* (n/d) * sqrt(2)^e with n/d in lowest terms, d > 0 and e in {0, 1}, the  *)
(* missing marker NaN, or an infinity.  The sqrt(2) is what the sample     *)
(* standard deviation of two observations brings in: |a - b| / sqrt(2).    *)
(***************************************************************************)
NaN == <<"nan", 0, 1, 0>>
PosInf == <<"inf", 1, 1, 0>>
NegInf == <<"inf", -1, 1, 0>>

Abs(i) == IF i < 0 THEN -i ELSE i

RECURSIVE GCD(_, _)
GCD(a, b) == IF b = 0 THEN a ELSE GCD(b, a % b)

\* (n/d) * sqrt(2)^e in normal form, for d # 0 and e in 0..2.
Surd(n, d, e) ==
    LET m == IF e = 2 THEN 2 * n ELSE n
        g == GCD(Abs(m), Abs(d))
        s == IF d < 0 THEN -1 ELSE 1
    IN  IF m = 0 THEN <<"num", 0, 1, 0>>
        ELSE <<"num", (s * m) \div g, (s * d) \div g, e % 2>>

Frac(n, d) == Surd(n, d, 0)

Num(i) == <<"num", i, 1, 0>>

isnull(x) == x[1] = "nan"
IsNum(x) == x[1] = "num"
IsInf(x) == x[1] = "inf"
Sign(x) == IF x[2] > 0 THEN 1 ELSE IF x[2] < 0 THEN -1 ELSE 0

FNeg(x) == IF isnull(x) THEN NaN ELSE <<x[1], -x[2], x[3], x[4]>>

\* x + y as IEEE floats add: NaN is absorbing, inf - inf is NaN.  Two finite
\* non-zero values are added only when they carry the same power of sqrt(2).
FAdd(x, y) ==
    IF isnull(x) \/ isnull(y) THEN NaN
    ELSE IF IsInf(x) /\ IsInf(y) THEN (IF x = y THEN x ELSE NaN)
    ELSE IF IsInf(x) THEN x
    ELSE IF IsInf(y) THEN y
    ELSE IF x[2] = 0 THEN y
    ELSE IF y[2] = 0 THEN x
    ELSE CASE x[4] = y[4] -> Surd(x[2] * y[3] + y[2] * x[3], x[3] * y[3], x[4])

FSub(x, y) == FAdd(x, FNeg(y))

\* x * y: 0 * inf is NaN.
FMul(x, y) ==
    IF isnull(x) \/ isnull(y) THEN NaN
    ELSE IF IsInf(x) \/ IsInf(y)
         THEN (IF Sign(x) * Sign(y) = 0 THEN NaN
               ELSE IF Sign(x) * Sign(y) > 0 THEN PosInf ELSE NegInf)
    ELSE Surd(x[2] * y[2], x[3] * y[3], x[4] + y[4])

\* x / y as numpy divides floats: x/0 is +-inf, 0/0 and inf/inf are NaN.
\* 1 / (q * sqrt(2)) is (1 / (2 * q)) * sqrt(2).
FDiv(x, y) ==
    IF isnull(x) \/ isnull(y) THEN NaN
    ELSE IF IsInf(x) /\ IsInf(y) THEN NaN
    ELSE IF IsInf(x) THEN (IF Sign(y) < 0 THEN FNeg(x) ELSE x)
    ELSE IF IsInf(y) THEN Num(0)
    ELSE IF y[2] = 0
         THEN (IF x[2] = 0 THEN NaN ELSE IF x[2] > 0 THEN PosInf ELSE NegInf)
    ELSE IF y[4] = 0 THEN Surd(x[2] * y[3], x[3] * y[2], x[4])
    ELSE Surd(x[2] * y[3], 2 * x[3] * y[2], x[4] + 1)

FAbs(x) == IF isnull(x) THEN NaN ELSE <<x[1], Abs(x[2]), x[3], x[4]>>

\* x < y on non-missing values; finite values of one sign compare as their squares.
FLess(x, y) ==
    IF IsInf(x) /\ IsInf(y) THEN x[2] < y[2]
    ELSE IF IsInf(x) THEN x[2] < 0
    ELSE IF IsInf(y) THEN y[2] > 0
    ELSE IF Sign(x) # Sign(y) THEN Sign(x) < Sign(y)
    ELSE IF Sign(x) = 0 THEN FALSE
    ELSE LET xs == x[2] * x[2] * y[3] * y[3] * (IF x[4] = 1 THEN 2 ELSE 1)
             ys == y[2] * y[2] * x[3] * x[3] * (IF y[4] = 1 THEN 2 ELSE 1)
         IN  IF Sign(x) > 0 THEN xs < ys ELSE ys < xs

\* The sum of f over the finite set S, missing values skipped (pandas' skipna):
\* an all-missing sum is 0.
RECURSIVE NanSum(_, _)
NanSum(f, S) ==
    IF S = {} THEN Num(0)
    ELSE LET x == CHOOSE y \in S : TRUE
         IN  IF isnull(f[x]) THEN NanSum(f, S \ {x})
             ELSE FAdd(f[x], NanSum(f, S \ {x}))

\* What a call hands back: a value, or the exception it raised.
Return(v) == [ok |-> TRUE, val |-> v]
Raise(e) == [ok |-> FALSE, exc |-> e]
NoResult == [ok |-> FALSE, exc |-> "not called"]

(***************************************************************************)
(* Panels.  A panel is [index, data]: index is the set of its rows         *)
(* <<dt, code>> (dates and codes are numbered in sort order) and data maps *)
(* each column name to that column, a function from index to values.       *)
(***************************************************************************)
Columns(panel) == DOMAIN panel.data
DatesOf(index) == {r[1] : r \in index}
Frame(index, dt) == {r \in index : r[1] = dt}

\* multiple_factor_analysis.py: the columns that are not factors.
ReservedNames == {"ret", "cap", "benchmark_returns", "group"}

\* factor_names = set(fac_ret_data.columns) - {'ret', 'cap', 'benchmark_returns', 'group'}
factor_names(fac_ret_data) == Columns(fac_ret_data) \ ReservedNames

\* direction: None, a bool, or a dict from factor names to bools.
None == [t |-> "none"]
Bool(b) == [t |-> "bool", b |-> b]
Dict(d) == [t |-> "dict", d |-> d]

(***************************************************************************)
(* Series.groupby(level=0).rank(ascending, na_option='keep',               *)
(* method='first'): within the rows of one date a valid value's rank is 1  *)
(* plus the number of valid values ordered before it, equal values in the  *)
(* order they appear; a missing value keeps a missing rank.                *)
(***************************************************************************)
RankFirst(col, index, r, ascending) ==
    IF isnull(col[r]) THEN NaN
    ELSE Num(1 + Cardinality({q \in Frame(index, r[1]) :
                /\ ~isnull(col[q])
                /\ \/ (IF ascending THEN FLess(col[q], col[r]) ELSE FLess(col[r], col[q]))
                   \/ (col[q] = col[r] /\ q[2] < r[2])}))

GroupRank(col, index, ascending) ==
    [r \in index |-> RankFirst(col, index, r, ascending)]

\* x.isnull().sum() over the rows S of one column.
NullCount(col, S) == Cardinality({q \in S : isnull(col[q])})

\* fillna(0.0)
Fillna0(col) == [r \in DOMAIN col |-> IF isnull(col[r]) THEN Num(0) ELSE col[r]]

\* A get_rank that forgets to lift the valid ranks above the missing ones.
ScoreShift_NoShift(rnk, index) == rnk

\* score.get_rank: rnk.groupby(level=0).apply(lambda x: x + x.isnull().sum()),
\* the missing count of the date's frame, column by column.
ScoreShift(rnk, index) ==
    [r \in index |-> FAdd(rnk[r], Num(NullCount(rnk, Frame(index, r[1]))))]

\* The direction each factor is ranked with in score.get_rank: the rows of the
\* reference table (fac_info) whose code is a factor, the bool for every factor,
\* or the dict over a default of False.
ScoreDefaultDirection(names, direction, fac_info) ==
    IF direction.t = "none"
    THEN [c \in DOMAIN fac_info \cap names |-> fac_info[c]]
    ELSE IF direction.t = "bool"
    THEN [c \in names |-> direction.b]
    ELSE [c \in names \cup DOMAIN direction.d |->
             IF c \in DOMAIN direction.d THEN direction.d[c] ELSE FALSE]

\* score.get_rank.  default_direction[col] raises KeyError for a factor the
\* reference table has no row for.
score_get_rank(fac_ret_data, direction, fac_info) ==
    LET names == factor_names(fac_ret_data)
        index == fac_ret_data.index
        default_direction == ScoreDefaultDirection(names, direction, fac_info)
    IN  IF \E col \in names : col \notin DOMAIN default_direction
        THEN Raise("KeyError")
        ELSE Return([col \in names |->
                Fillna0(ScoreShift(
                    GroupRank(fac_ret_data.data[col], index, ~default_direction[col]),
                    index))])

\* dynamic_score.get_rank: rnk += rnk.isnull().sum(), the missing count of the
\* whole column, all dates together.
DynamicShift(rnk, index) ==
    [r \in index |-> FAdd(rnk[r], Num(NullCount(rnk, index)))]

\* dynamic_score.get_rank (rank_method='first', na_option='keep').  direction=None
\* takes neither branch and rnk is unbound.
dynamic_score_get_rank(fac_ret_data, direction) ==
    LET names == factor_names(fac_ret_data)
        index == fac_ret_data.index
        default_direction ==
            IF direction.t = "bool" THEN [c \in names |-> direction.b]
            ELSE [c \in names \cup DOMAIN direction.d |->
                     IF c \in DOMAIN direction.d THEN direction.d[c] ELSE FALSE]
    IN  IF direction.t = "none" THEN Raise("UnboundLocalError")
        ELSE Return([col \in names |->
                Fillna0(DynamicShift(
                    GroupRank(fac_ret_data.data[col], index, ~default_direction[col]),
                    index))])

(***************************************************************************)
(* RankSpec: get_rank of score and of dynamic_score on panels of one factor *)
(* over 1..NumDates dates of three securities, direction a bool.  The      *)
(* factor is missing, 3 or 5; the last security never holds the 5.         *)
(***************************************************************************)
NumDates == 2
Codes == 1..3
RankValues == {NaN, Num(3), Num(5)}

GridIndex(n) == (1..n) \X Codes

RankPanels ==
    UNION {{[index |-> GridIndex(n),
             data |-> [c \in {"M1", "ret"} |->
                          IF c = "M1" THEN col ELSE [r \in GridIndex(n) |-> Num(0)]]] :
            col \in {v \in [GridIndex(n) -> RankValues] :
                       \A dt \in 1..n : v[<<dt, 3>>] # Num(5)}} : n \in 1..NumDates}

NoEnv == [fac_info |-> <<>>]

RankInit ==
    /\ fn = "none"
    /\ args \in {[fac_ret_data |-> p, direction |-> Bool(b)] :
                    p \in RankPanels, b \in BOOLEAN}
    /\ env = NoEnv
    /\ ret_val = NoResult
    /\ stdout = <<>>
    /\ calls = <<>>

ScoreGetRank ==
    /\ fn = "none"
    /\ fn' = "score.get_rank"
    /\ ret_val' = score_get_rank(args.fac_ret_data, args.direction, env.fac_info)
    /\ UNCHANGED <<args, env, stdout, calls>>

DynamicScoreGetRank ==
    /\ fn = "none"
    /\ fn' = "dynamic_score.get_rank"
    /\ ret_val' = dynamic_score_get_rank(args.fac_ret_data, args.direction)
    /\ UNCHANGED <<args, env, stdout, calls>>

RankNext == ScoreGetRank \/ DynamicScoreGetRank

RankSpec == RankInit /\ [][RankNext]_vars

\* The ranks of column col on date dt are complete: the M missing values of that
\* date have rank 0 and the N-M valid ones have exactly the ranks M+1..N.
RankComplete(panel, rnk, col, dt) ==
    LET S == Frame(panel.index, dt)
        missing == {r \in S : isnull(panel.data[col][r])}
        N == Cardinality(S)
        M == Cardinality(missing)
    IN  /\ \A r \in missing : rnk[col][r] = Num(0)
        /\ {rnk[col][r] : r \in S \ missing} = {Num(k) : k \in (M + 1)..N}

\* C1: after get_rank of score or of dynamic_score, on every date and for every
\* factor the ranks are complete with M the missing count of that date only.
C1_RankCompleteness ==
    fn \in {"score.get_rank", "dynamic_score.get_rank"} =>
        /\ ret_val.ok
        /\ \A col \in factor_names(args.fac_ret_data) :
             \A dt \in DatesOf(args.fac_ret_data.index) :
                RankComplete(args.fac_ret_data, ret_val.val, col, dt)

\* The cross-section of date dt of column col, in security order.
CrossSection(panel, col, dt) == [c \in Codes |-> panel.data[col][<<dt, c>>]]

Scenario538 == <<Num(5), NaN, Num(3)>>

\* The get_rank calls C6 is about: score.get_rank on any panel, and
\* dynamic_score.get_rank on a panel of that one date, with direction=False.
C6_Case(dt) ==
    /\ fn \in {"score.get_rank", "dynamic_score.get_rank"}
    /\ fn = "dynamic_score.get_rank" => DatesOf(args.fac_ret_data.index) = {dt}
    /\ args.direction = Bool(FALSE)
    /\ CrossSection(args.fac_ret_data, "M1", dt) = Scenario538

\* C6 with the ranks of the scenario, [1, 0, 2]: values [5, NaN, 3] ranked with
\* direction=False get the ranks 1, 0 and 2.
C6_Original ==
    \A dt \in DatesOf(args.fac_ret_data.index) :
        C6_Case(dt) =>
            /\ ret_val.ok
            /\ CrossSection([index |-> args.fac_ret_data.index, data |-> ret_val.val],
                            "M1", dt) = <<Num(1), Num(0), Num(2)>>

\* C6: values [5, NaN, 3] ranked with direction=False get ranks [3, 0, 2]:
\* the missing value 0, the larger value 5 the top rank 3, the value 3 rank 2.
C6_MissingValueRanks ==
    \A dt \in DatesOf(args.fac_ret_data.index) :
        C6_Case(dt) =>
            /\ ret_val.ok
            /\ CrossSection([index |-> args.fac_ret_data.index, data |-> ret_val.val],
                            "M1", dt) = <<Num(3), Num(0), Num(2)>>

C6_Witness ==
    /\ fn = "score.get_rank"
    /\ 2 \in DatesOf(args.fac_ret_data.index)
    /\ C6_Case(2)
    /\ ret_val.ok
    /\ ret_val.val["M1"][<<2, 1>>] = Num(3)

(***************************************************************************)
(* util.__frame_to_rank and the head of score.context_weighted: the factor *)
(* columns are multiplied by -1 (ascending) or 1, cap is left alone.       *)
(***************************************************************************)
\* asc[k] = -1 if v else 1, and standardized_factor[col] * asc[col] for every
\* column but cap; asc[col] raises KeyError for a column direction has no key for.
frame_to_rank(direction, standardized_factor) ==
    LET asc == [k \in DOMAIN direction |-> IF direction[k] THEN -1 ELSE 1]
        cols == Columns(standardized_factor)
    IN  IF \E col \in cols \ {"cap"} : col \notin DOMAIN asc
        THEN Raise("KeyError")
        ELSE Return([index |-> standardized_factor.index,
                     data |-> [col \in cols |->
                        IF col = "cap" THEN standardized_factor.data[col]
                        ELSE [r \in standardized_factor.index |->
                                FMul(standardized_factor.data[col][r], Num(asc[col]))]]])

\* score.context_weighted, lines 162-175: default_direction is all False for a
\* bool direction, the dict over all False for a dict, and is not assigned at
\* all when direction is None; fac_ret_cap = fac_ret_data[factor_names + ['cap']].
context_weighted_fac_ret_cap(fac_ret_data, direction) ==
    LET names == factor_names(fac_ret_data)
        default_direction ==
            IF direction.t = "bool" THEN [c \in names |-> FALSE]
            ELSE [c \in names \cup DOMAIN direction.d |->
                     IF c \in DOMAIN direction.d THEN direction.d[c] ELSE FALSE]
        factors == names \cup {"cap"}
        fac_ret_cap == [index |-> fac_ret_data.index,
                        data |-> [c \in factors |-> fac_ret_data.data[c]]]
    IN  IF "cap" \notin Columns(fac_ret_data) THEN Raise("KeyError")
        ELSE IF direction.t = "none" THEN Raise("UnboundLocalError")
        ELSE frame_to_rank(default_direction, fac_ret_cap)

(***************************************************************************)
(* DirSpec: score.get_rank and score.context_weighted under every form of  *)
(* direction (None, a bool, a dict over any part of the factors) and every *)
(* reference table over the factor codes, on panels of one date and two    *)
(* securities with one or two factors.                                     *)
(***************************************************************************)
FactorCodes == {"M1", "M2"}
DirIndex == {1} \X (1..2)

PartialFunctions(S, T) == UNION {[D -> T] : D \in SUBSET S}

DirPanels ==
    {[index |-> DirIndex,
      data |-> [c \in DOMAIN f \cup {"cap", "ret"} |->
                   IF c \in DOMAIN f THEN f[c] ELSE [r \in DirIndex |-> Num(r[2])]]] :
        f \in {g \in PartialFunctions(FactorCodes, [DirIndex -> RankValues]) :
                  "M1" \in DOMAIN g}}

Directions ==
    {None} \cup {Bool(b) : b \in BOOLEAN}
           \cup {Dict(d) : d \in PartialFunctions(FactorCodes, BOOLEAN)}

DirInit ==
    /\ fn = "none"
    /\ args \in {[fac_ret_data |-> p, direction |-> d] : p \in DirPanels, d \in Directions}
    /\ env \in {[fac_info |-> t] : t \in PartialFunctions(FactorCodes, BOOLEAN)}
    /\ ret_val = NoResult
    /\ stdout = <<>>
    /\ calls = <<>>

ScoreContextWeighted ==
    /\ fn = "none"
    /\ fn' = "score.context_weighted"
    /\ ret_val' = context_weighted_fac_ret_cap(args.fac_ret_data, args.direction)
    /\ UNCHANGED <<args, env, stdout, calls>>

DirNext == ScoreGetRank \/ ScoreContextWeighted

DirSpec == DirInit /\ [][DirNext]_vars

\* The direction a factor is to be handled with: the bool, the dict's entry or
\* the reference table's entry, and descending (False) when there is none.
IntendedDirection(direction, fac_info, col) ==
    IF direction.t = "bool" THEN direction.b
    ELSE IF direction.t = "dict"
    THEN (IF col \in DOMAIN direction.d THEN direction.d[col] ELSE FALSE)
    ELSE (IF col \in DOMAIN fac_info THEN fac_info[col] ELSE FALSE)

\* C8: score.get_rank with direction omitted does not fail, ranks a factor the
\* reference table has with the table's direction and a factor it has not with
\* the default, descending-is-better direction.
C8_OmittedDirection ==
    (fn = "score.get_rank" /\ args.direction = None) =>
        /\ ret_val.ok
        /\ \A col \in factor_names(args.fac_ret_data) :
              ret_val.val[col] =
                 Fillna0(ScoreShift(
                    GroupRank(args.fac_ret_data.data[col], args.fac_ret_data.index,
                              ~IntendedDirection(None, env.fac_info, col)),
                    args.fac_ret_data.index))

\* C9: score.context_weighted does not fail and, whatever the form of direction,
\* hands on every factor column multiplied by -1 when the factor's direction is
\* ascending (True) and by 1 when it is descending, and cap as it was.
C9_SignAdjustment ==
    fn = "score.context_weighted" =>
        /\ ret_val.ok
        /\ \A col \in factor_names(args.fac_ret_data) :
              \A r \in args.fac_ret_data.index :
                 ret_val.val.data[col][r] =
                    FMul(args.fac_ret_data.data[col][r],
                         Num(IF IntendedDirection(args.direction, env.fac_info, col)
                             THEN -1 ELSE 1))
        /\ ret_val.val.data["cap"] = args.fac_ret_data.data["cap"]

(***************************************************************************)
(* The rolling weight schemes of score and dynamic_score.  A date-indexed  *)
(* frame (the IC series, the top-group returns, a weight) is a function    *)
(* from dates to rows, a row a function from factor names to values.       *)
(* get_ic (metrics.information_coefficient) and the top-group returns      *)
(* (analysis.add_group) are library results read from env.                 *)
(***************************************************************************)
\* The non-missing values of column f in the window of `window` dates ending at dt.
WindowDates(frame, f, dt, window) ==
    {u \in DOMAIN frame : u <= dt /\ u > dt - window /\ ~isnull(frame[u][f])}

\* frame.rolling(window, min_periods=1).mean()
rolling_mean(frame, window) ==
    [dt \in DOMAIN frame |-> [f \in DOMAIN frame[dt] |->
        LET W == WindowDates(frame, f, dt, window)
        IN  IF W = {} THEN NaN
            ELSE FDiv(NanSum([u \in W |-> frame[u][f]], W), Num(Cardinality(W)))]]

\* frame.rolling(window, min_periods=1).std(): the sample standard deviation
\* (ddof=1), missing for fewer than two observations, |a - b| / sqrt(2) for two.
rolling_std(frame, window) ==
    [dt \in DOMAIN frame |-> [f \in DOMAIN frame[dt] |->
        LET W == WindowDates(frame, f, dt, window)
        IN  CASE Cardinality(W) < 2 -> NaN
              [] Cardinality(W) = 2 ->
                    LET a == CHOOSE u \in W : TRUE
                        b == CHOOSE u \in W : u # a
                    IN  FDiv(FAbs(FSub(frame[a][f], frame[b][f])), Surd(1, 1, 1))]]

\* frame.abs()
FrameAbs(frame) == [dt \in DOMAIN frame |-> [f \in DOMAIN frame[dt] |-> FAbs(frame[dt][f])]]

\* frame.sum(axis=1): the sum of each row, missing values skipped.
RowSum(frame) == [dt \in DOMAIN frame |-> NanSum(frame[dt], DOMAIN frame[dt])]

\* frame.div(frame.sum(axis=1), axis='index'): each row divided by its own sum.
DivByRowSum(frame) ==
    [dt \in DOMAIN frame |-> [f \in DOMAIN frame[dt] |->
        FDiv(frame[dt][f], RowSum(frame)[dt])]]

\* frame / frame.sum(axis=1): the division of a frame by a series matches the
\* labels of the series (here the dates) against the column labels of the frame
\* (here the factor names); a column with no label like it in the series is
\* missing in the result.
DivBySeriesOfRowSums(frame) ==
    LET series == RowSum(frame)
        seriesLabels == {<<"dt", u>> : u \in DOMAIN series}
    IN  [dt \in DOMAIN frame |-> [f \in DOMAIN frame[dt] |->
            IF <<"column", f>> \in seriesLabels
            THEN FDiv(frame[dt][f], series[f]) ELSE NaN]]

\* rolling_std.iloc[0, :] = 1
SetFirstRow(frame, v) ==
    [dt \in DOMAIN frame |-> [f \in DOMAIN frame[dt] |->
        IF \A u \in DOMAIN frame : dt <= u THEN v ELSE frame[dt][f]]]

FrameDiv(x, y) == [dt \in DOMAIN x |-> [f \in DOMAIN x[dt] |-> FDiv(x[dt][f], y[dt][f])]]

\* score.ic_weighted, lines 217-219
score_ic_weight(ic, score_window) ==
    DivByRowSum(rolling_mean(FrameAbs(ic), score_window))

\* score.icir_weighted, lines 236-242
score_icir(ic, score_window) ==
    FrameDiv(rolling_mean(FrameAbs(ic), score_window),
             SetFirstRow(rolling_std(FrameAbs(ic), score_window), Num(1)))

score_icir_weight(ic, score_window) == DivByRowSum(score_icir(ic, score_window))

\* score.ret_weighted, lines 258-261: returns holds one column of top-group (Q01)
\* mean returns per factor.
score_ret_weight(returns, score_window) ==
    DivByRowSum(rolling_mean(returns, score_window))

\* (rank * weight).sum(axis=1): the weight row of the date of each panel row.
WeightedScore(rank, weight, index) ==
    [r \in index |->
        NanSum([f \in DOMAIN rank |-> FMul(rank[f][r], weight[r[1]][f])], DOMAIN rank)]

\* The three weighted schemes of score: the local `weight` and the score column.
score_weighted(fac_ret_data, method, direction, score_window, e) ==
    LET rank == score_get_rank(fac_ret_data, direction, e.fac_info)
        weight == CASE method = "ic_weighted" -> score_ic_weight(e.ic, score_window)
                    [] method = "icir_weighted" -> score_icir_weight(e.ic, score_window)
                    [] method = "ret_weighted" -> score_ret_weight(e.q01, score_window)
    IN  IF ~rank.ok THEN rank
        ELSE [ok |-> TRUE, weight |-> weight,
              val |-> WeightedScore(rank.val, weight, fac_ret_data.index)]

\* dynamic_score.ic_weighted, lines 398-400
dynamic_ic_weight(ic, score_window) ==
    DivBySeriesOfRowSums(rolling_mean(FrameAbs(ic), score_window))

\* dynamic_score.icir_weighted, lines 419-423: the ratio is not divided by its
\* row sum; the row labelled 0 is overwritten with the rolling mean.
dynamic_icir_weight(ic, score_window) ==
    LET rolling_ic == rolling_mean(FrameAbs(ic), score_window)
        weight == FrameDiv(rolling_ic, rolling_std(FrameAbs(ic), score_window))
    IN  [dt \in DOMAIN weight |-> IF dt = 0 THEN rolling_ic[dt] ELSE weight[dt]]

\* The three weighted schemes of dynamic_score.  icir_weighted reads
\* rolling_ic.loc[0, :], the row labelled 0 of a frame whose labels are the
\* dates; ret_weighted never appends to first_group_returns and concatenates
\* the empty list.
dynamic_score_weighted(fac_ret_data, method, direction, score_window, e) ==
    LET rank == dynamic_score_get_rank(fac_ret_data, direction)
        weight == dynamic_ic_weight(e.ic, score_window)
    IN  CASE method = "ic_weighted" ->
                IF ~rank.ok THEN rank
                ELSE [ok |-> TRUE, weight |-> weight,
                      val |-> WeightedScore(rank.val, weight, fac_ret_data.index)]
          [] method = "icir_weighted" ->
                IF 0 \notin DOMAIN e.ic THEN Raise("KeyError")
                ELSE IF ~rank.ok THEN rank
                ELSE [ok |-> TRUE, weight |-> dynamic_icir_weight(e.ic, score_window),
                      val |-> WeightedScore(rank.val,
                                            dynamic_icir_weight(e.ic, score_window),
                                            fac_ret_data.index)]
          [] method = "ret_weighted" -> Raise("ValueError")

(***************************************************************************)
(* WeightSpec: the ic_weighted, icir_weighted and ret_weighted schemes of  *)
(* score and dynamic_score on every IC (or top-group return) series of two *)
(* factors over NumDates dates, with a window of one or two dates.         *)
(***************************************************************************)
Windows == {1, 2}
StatValues == {NaN, Num(-1), Num(0), Frac(1, 2)}
WeightMethods == {"ic_weighted", "icir_weighted", "ret_weighted"}

StatFrames == [1..NumDates -> [FactorCodes -> StatValues]]
NoStat == [dt \in 1..NumDates |-> [f \in FactorCodes |-> NaN]]

\* One panel of NumDates dates: M1 is 5, missing, 3 and M2 is 3, 3, 5 on every date.
WeightPanel ==
    [index |-> GridIndex(NumDates),
     data |-> [c \in FactorCodes \cup {"ret"} |-> [r \in GridIndex(NumDates) |->
                 CASE c = "M1" -> Scenario538[r[2]]
                   [] c = "M2" -> <<Num(3), Num(3), Num(5)>>[r[2]]
                   [] c = "ret" -> Num(0)]]]

WeightInit ==
    /\ fn = "none"
    /\ args \in {[fac_ret_data |-> WeightPanel, method |-> m, direction |-> Bool(FALSE),
                  score_window |-> w] : m \in WeightMethods, w \in Windows}
    /\ env \in {[fac_info |-> <<>>,
                 ic |-> IF args.method = "ret_weighted" THEN NoStat ELSE x,
                 q01 |-> IF args.method = "ret_weighted" THEN x ELSE NoStat] :
                   x \in StatFrames}
    /\ ret_val = NoResult
    /\ stdout = <<>>
    /\ calls = <<>>

ScoreWeighted ==
    /\ fn = "none"
    /\ fn' = "score"
    /\ ret_val' = score_weighted(args.fac_ret_data, args.method, args.direction,
                                 args.score_window, env)
    /\ UNCHANGED <<args, env, stdout, calls>>

DynamicScoreWeighted ==
    /\ fn = "none"
    /\ fn' = "dynamic_score"
    /\ ret_val' = dynamic_score_weighted(args.fac_ret_data, args.method, args.direction,
                                         args.score_window, env)
    /\ UNCHANGED <<args, env, stdout, calls>>

WeightNext == ScoreWeighted \/ DynamicScoreWeighted

WeightSpec == WeightInit /\ [][WeightNext]_vars

\* What each factor contributes to the weight of a scheme: its rolling mean
\* absolute IC, its IC/IR ratio, or its rolling mean top-group return.
Contribution(method, e, score_window) ==
    CASE method = "ic_weighted" -> rolling_mean(FrameAbs(e.ic), score_window)
      [] method = "icir_weighted" -> score_icir(e.ic, score_window)
      [] method = "ret_weighted" -> rolling_mean(e.q01, score_window)

\* A row of weights is a normalized allocation: no entry is negative and the
\* entries (missing ones skipped) sum to 1.
NormalizedRow(row) ==
    /\ \A f \in DOMAIN row : isnull(row[f]) \/ ~FLess(row[f], Num(0))
    /\ NanSum(row, DOMAIN row) = Num(1)

\* C2: after an ic_weighted, icir_weighted or ret_weighted call of score or of
\* dynamic_score, the weight row of every date is a normalized allocation when
\* some factor's contribution on that date is neither zero nor missing, and is
\* all missing otherwise.
C2_WeightNormalization ==
    fn \in {"score", "dynamic_score"} =>
        /\ ret_val.ok
        /\ \A dt \in DOMAIN ret_val.weight :
              LET c == Contribution(args.method, env, args.score_window)[dt]
              IN  IF \E f \in DOMAIN c : ~isnull(c[f]) /\ c[f] # Num(0)
                  THEN NormalizedRow(ret_val.weight[dt])
                  ELSE \A f \in DOMAIN c : isnull(ret_val.weight[dt][f])


(***************************************************************************)
(* regress (method common_regress).  smf.ols(formula, data).fit() is the   *)
(* least-squares fit of ret on an intercept and the factor, over the rows  *)
(* of the date that miss neither (the formula interface drops the others); *)
(* the fit is the pseudo-inverse solution, which for a cross-section whose *)
(* factor values are all equal is the one of least norm.  The fit is       *)
(* written for panels of one factor.                                       *)
(***************************************************************************)
\* The rows of date dt the fit uses.
FitRows(fac_ret_data, fac, dt) ==
    {r \in Frame(fac_ret_data.index, dt) :
        ~isnull(fac_ret_data.data[fac][r]) /\ ~isnull(fac_ret_data.data["ret"][r])}

\* sm.OLS(y, add_constant(x)).fit() / smf.ols('y ~ x').fit() on the rows S (not
\* empty): [Intercept, beta, resid], the least-norm solution (pinv) when x is
\* constant on S.
OLS(x, y, S) ==
    LET n == Num(Cardinality(S))
        Sx == NanSum(x, S)
        Sy == NanSum(y, S)
        Sxx == NanSum([r \in S |-> FMul(x[r], x[r])], S)
        Sxy == NanSum([r \in S |-> FMul(x[r], y[r])], S)
        det == FSub(FMul(n, Sxx), FMul(Sx, Sx))
        c == FDiv(Sx, n)
        ybar == FDiv(Sy, n)
        beta == IF det # Num(0)
                THEN FDiv(FSub(FMul(n, Sxy), FMul(Sx, Sy)), det)
                ELSE FDiv(FMul(c, ybar), FAdd(Num(1), FMul(c, c)))
        Intercept == IF det # Num(0)
                     THEN FDiv(FSub(Sy, FMul(beta, Sx)), n)
                     ELSE FDiv(ybar, FAdd(Num(1), FMul(c, c)))
    IN  [Intercept |-> Intercept, beta |-> beta,
         resid |-> [r \in S |-> FSub(y[r], FAdd(Intercept, FMul(beta, x[r])))]]

\* ret_ols_fac: the fit of one date, [Intercept, beta, resid] with resid a
\* function of the rows used.  S is not empty.
ret_ols_fac(fac_ret_data, fac, S) ==
    OLS([r \in S |-> fac_ret_data.data[fac][r]],
        [r \in S |-> fac_ret_data.data["ret"][r]], S)

\* get_params: the fit of every date; params has one row per row used in a fit.
get_params(fac_ret_data, fac) ==
    [dt \in DatesOf(fac_ret_data.index) |->
        ret_ols_fac(fac_ret_data, fac, FitRows(fac_ret_data, fac, dt))]

ParamsIndex(fac_ret_data, fac) ==
    UNION {FitRows(fac_ret_data, fac, dt) : dt \in DatesOf(fac_ret_data.index)}

\* A shift the wrong way, shift(-1): the row after it.
ShiftSource_Next(pindex, r) ==
    {q \in pindex : /\ q[2] = r[2]
                    /\ q[1] > r[1]
                    /\ \A u \in pindex : (u[2] = r[2] /\ u[1] > r[1]) => u[1] >= q[1]}

\* params.groupby(level=1).shift(1): the row a row of params takes its values
\* from, the row before it among the rows of the same security.
ShiftSource(pindex, r) ==
    {q \in pindex : /\ q[2] = r[2]
                    /\ q[1] < r[1]
                    /\ \A u \in pindex : (u[2] = r[2] /\ u[1] < r[1]) => u[1] <= q[1]}

\* common_regress: params shifted one period (resid, Intercept and beta alike),
\* rows with nothing before them dropped, and
\* ret = Intercept + resid + fac * beta_fac on the rows left.
common_regress(fac_ret_data, fac) ==
    LET params == get_params(fac_ret_data, fac)
        pindex == ParamsIndex(fac_ret_data, fac)
        combined == {r \in pindex : ShiftSource(pindex, r) # {}}
        src(r) == CHOOSE q \in ShiftSource(pindex, r) : TRUE
    IN  [r \in combined |->
            FAdd(FAdd(params[src(r)[1]].Intercept, params[src(r)[1]].resid[src(r)]),
                 FMul(fac_ret_data.data[fac][r], params[src(r)[1]].beta))]

\* regress: ValueError without a factor, KeyError (after printing the valid
\* methods) for an unknown method; the fit of a date with no usable row raises.
regress(fac_ret_data, method) ==
    LET names == factor_names(fac_ret_data)
        fac == CHOOSE f \in names : TRUE
    IN  IF names = {} THEN Raise("ValueError")
        ELSE IF method # "common_regress" THEN Raise("KeyError")
        ELSE IF \E dt \in DatesOf(fac_ret_data.index) : FitRows(fac_ret_data, fac, dt) = {}
        THEN Raise("ValueError")
        ELSE Return(common_regress(fac_ret_data, fac))

(***************************************************************************)
(* RegressSpec: regress on panels of one factor and three securities over  *)
(* NumDates + 1 dates, then once more after the caller has changed the ret *)
(* values of one date.                                                     *)
(***************************************************************************)
RegDates == 1..(NumDates + 1)
RegIndex == RegDates \X Codes
FacVectors == {<<Num(1), Num(2), Num(3)>>, <<Num(2), Num(2), Num(2)>>}
RetVectors == {<<Num(0), Num(1), Num(0)>>, <<NaN, Num(1), Num(0)>>, <<NaN, NaN, NaN>>}

RegPanels ==
    {[index |-> RegIndex,
      data |-> [c \in {"M1", "ret"} |-> [r \in RegIndex |-> xs[r[1]][c][r[2]]]]] :
        xs \in [RegDates -> [M1 : FacVectors, ret : RetVectors]]}

RegressInit ==
    /\ fn = "none"
    /\ args \in {[fac_ret_data |-> p, method |-> "common_regress"] : p \in RegPanels}
    /\ env = NoEnv
    /\ ret_val = NoResult
    /\ stdout = <<>>
    /\ calls = <<>>

Regress ==
    /\ fn = "none"
    /\ fn' = "regress"
    /\ ret_val' = regress(args.fac_ret_data, args.method)
    /\ UNCHANGED <<args, env, stdout, calls>>

\* The panel with the ret values of date T replaced by v.
WithRet(panel, T, v) ==
    [panel EXCEPT !.data["ret"] =
        [r \in panel.index |-> IF r[1] = T THEN v[r[2]] ELSE @[r]]]

\* The caller changes the ret values of date T and calls regress again.
RegressAgain(T, v) ==
    /\ fn = "regress"
    /\ calls = <<>>
    /\ calls' = <<[args |-> args, ret_val |-> ret_val]>>
    /\ args' = [args EXCEPT !.fac_ret_data = WithRet(@, T, v)]
    /\ ret_val' = regress(args'.fac_ret_data, args'.method)
    /\ UNCHANGED <<fn, env, stdout>>

RegressNext ==
    \/ Regress
    \/ \E T \in RegDates, v \in RetVectors : RegressAgain(T, v)

RegressSpec == RegressInit /\ [][RegressNext]_vars

\* Two panels are the same but for the ret values of date T.
SameButRetOn(p, q, T) ==
    /\ p.index = q.index
    /\ \A c \in Columns(p) \ {"ret"} : p.data[c] = q.data[c]
    /\ \A r \in p.index : r[1] # T => p.data["ret"][r] = q.data["ret"][r]

\* The rows dated before T of the frame a call returned.
RowsBefore(out, T) == {r \in DOMAIN out : r[1] < T}

C10_ReconstructedReturn ==
    (fn = "regress" /\ ret_val.ok) =>
        LET p == args.fac_ret_data
            params == get_params(p, "M1")
            pindex == ParamsIndex(p, "M1")
        IN  \A r \in pindex :
               IF ShiftSource(pindex, r) = {} THEN r \notin DOMAIN ret_val.val
               ELSE LET prev == (CHOOSE q \in ShiftSource(pindex, r) : TRUE)[1]
                    IN  /\ r \in DOMAIN ret_val.val
                        /\ ret_val.val[r] =
                              FAdd(FAdd(params[prev].Intercept,
                                        FMul(p.data["M1"][r], params[prev].beta)),
                                   params[r[1]].resid[r])

(***************************************************************************)
(* util.cut_group and util.get_grouped_data.  An argument that may be a    *)
(* name or a number is <<"str", s>> or <<"int", i>>.                       *)
(***************************************************************************)
StrArg(x) == <<"str", x>>
IntArg(i) == <<"int", i>>

\* data.rank(method='first', na_option='bottom', ascending=ascending) over all
\* the rows of the series: the valid values first, equal values in the order
\* they appear, then the missing ones in the order they appear.
RankBottom(col, index, r, ascending) ==
    1 + Cardinality({q \in index :
          IF isnull(col[r]) THEN ~isnull(col[q]) \/ q[1] < r[1] \/ (q[1] = r[1] /\ q[2] < r[2])
          ELSE /\ ~isnull(col[q])
               /\ \/ (IF ascending THEN FLess(col[q], col[r]) ELSE FLess(col[r], col[q]))
                  \/ (col[q] = col[r] /\ (q[1] < r[1] \/ (q[1] = r[1] /\ q[2] < r[2])))})

\* each_group after the cumsum: the rank the g-th group ends at.
GroupEnd(data_len, num_group, g) ==
    g * (data_len \div num_group) +
        (IF g <= data_len % num_group THEN g ELSE data_len % num_group)

\* cut_group(data_, num_group, col_name, ascending): the group ('Q' + str(g),
\* here g) of every row of the frame data_.
cut_group(data_, num_group, col_name, ascending) ==
    IF col_name[1] # "str" \/ col_name[2] \notin Columns(data_) THEN Raise("KeyError")
    ELSE IF num_group[1] # "int" THEN Raise("TypeError")
    ELSE IF num_group[2] = 0 THEN Raise("ZeroDivisionError")
    ELSE LET data == data_.data[col_name[2]]
             data_len == Cardinality(data_.index)
             idx == [r \in data_.index |-> RankBottom(data, data_.index, r, ascending)]
         IN  Return([r \in data_.index |->
                CHOOSE g \in 1..num_group[2] :
                    /\ idx[r] > GroupEnd(data_len, num_group[2], g - 1)
                    /\ idx[r] <= GroupEnd(data_len, num_group[2], g)])

\* The rows of one date as a frame of their own.
DateFrame(panel, dt) ==
    [index |-> Frame(panel.index, dt),
     data |-> [c \in Columns(panel) |-> [r \in Frame(panel.index, dt) |-> panel.data[c][r]]]]

\* get_grouped_data(fac_ret_cap, col_name, num_group, ascending):
\* fac_ret_cap.groupby(level=0).apply(lambda frame:
\*     cut_group(frame, col_name, num_group, ascending)),
\* the arguments handed on by position: col_name lands in cut_group's num_group
\* and num_group in its col_name.
get_grouped_data(fac_ret_cap, col_name, num_group, ascending) ==
    LET dfg == [dt \in DatesOf(fac_ret_cap.index) |->
                   cut_group(DateFrame(fac_ret_cap, dt), col_name, num_group, ascending)]
    IN  IF \E dt \in DOMAIN dfg : ~dfg[dt].ok
        THEN dfg[CHOOSE dt \in DOMAIN dfg :
                    ~dfg[dt].ok /\ \A u \in DOMAIN dfg : ~dfg[u].ok => dt <= u]
        ELSE Return([dt \in DOMAIN dfg |-> dfg[dt].val])

(***************************************************************************)
(* GroupSpec: cut_group and get_grouped_data on frames of one or two dates *)
(* of up to MaxItems rows each, cut into 1..MaxGroups groups.              *)
(***************************************************************************)
MaxItems == 3
MaxGroups == 3
GroupDates == {1, 2}

GroupFrames ==
    UNION {{[index |-> (1..nd) \X (1..n),
             data |-> [c \in {"M1", "ret"} |->
                          IF c = "M1" THEN col ELSE [r \in (1..nd) \X (1..n) |-> Num(0)]]] :
            col \in [(1..nd) \X (1..n) -> RankValues]} : nd \in GroupDates, n \in 0..MaxItems}

GroupInit ==
    /\ fn = "none"
    /\ args \in {[data_ |-> f, col_name |-> "M1", num_group |-> k, ascending |-> b] :
                    f \in GroupFrames, k \in 1..MaxGroups, b \in BOOLEAN}
    /\ env = NoEnv
    /\ ret_val = NoResult
    /\ stdout = <<>>
    /\ calls = <<>>

\* cut_group(data_, num_group, col_name, ascending) called directly.
CutGroup ==
    /\ fn = "none"
    /\ fn' = "cut_group"
    /\ ret_val' = cut_group(args.data_, IntArg(args.num_group), StrArg(args.col_name),
                            args.ascending)
    /\ UNCHANGED <<args, env, stdout, calls>>

\* get_grouped_data(fac_ret_cap, col_name, num_group, ascending)
GetGroupedData ==
    /\ fn = "none"
    /\ fn' = "get_grouped_data"
    /\ ret_val' = get_grouped_data(args.data_, StrArg(args.col_name), IntArg(args.num_group),
                                   args.ascending)
    /\ UNCHANGED <<args, env, stdout, calls>>

GroupNext == CutGroup \/ GetGroupedData

GroupSpec == GroupInit /\ [][GroupNext]_vars

\* groups cuts the rows S, ranked by col, into k balanced groups in rank order:
\* the first N mod k groups hold ceil(N/k) rows and the others floor(N/k).
Balanced(groups, col, S, k, ascending) ==
    LET N == Cardinality(S)
    IN  /\ \A r \in S : groups[r] \in 1..k
        /\ \A g \in 1..k :
              Cardinality({r \in S : groups[r] = g}) =
                 (N \div k) + (IF g <= N % k THEN 1 ELSE 0)
        /\ \A r, q \in S :
              RankBottom(col, S, r, ascending) < RankBottom(col, S, q, ascending)
                 => groups[r] <= groups[q]

\* C3: cut_group called directly cuts the rows it is given, and get_grouped_data
\* the rows of every date, into num_group balanced groups in the rank order of
\* column col_name.
C3_BucketBalance ==
    /\ fn = "cut_group" =>
          /\ ret_val.ok
          /\ Balanced(ret_val.val, args.data_.data[args.col_name], args.data_.index,
                      args.num_group, args.ascending)
    /\ fn = "get_grouped_data" =>
          /\ ret_val.ok
          /\ \A dt \in DatesOf(args.data_.index) :
                Balanced(ret_val.val[dt], args.data_.data[args.col_name],
                         Frame(args.data_.index, dt), args.num_group, args.ascending)

(***************************************************************************)
(* util.single_neutral and its per-column worker util.__single_neutral.    *)
(* A frame here also carries the order of its columns:                     *)
(* [index, columns, data].                                                 *)
(***************************************************************************)
Range(seq) == {seq[k] : k \in 1..Len(seq)}

Position(seq, x) == CHOOSE k \in 1..Len(seq) : seq[k] = x

\* x[:1], the first character of a column name.
Initial(x) ==
    CASE x \in {"M1", "M2"} -> "M"
      [] x = "ret" -> "r"
      [] x = "cap" -> "c"
      [] x = "benchmark_returns" -> "b"
      [] x = "ind" -> "i"
      [] OTHER -> "x"

\* 'x' + str(k)
XName(k) == <<"x1", "x2", "x3">>[k]

\* field_x = [x for x in df.columns if x[:1] not in ['M','r','b']]
field_x(columns) == SelectSeq(columns, LAMBDA x : Initial(x) \notin {"M", "r", "b"})

\* field_dic[col]: 'x' and the position of col in field_x.
field_dic(columns, col) == XName(Position(field_x(columns), col))

\* df.columns = [field_dic[col] if (col in field_x and col not in ['cap'])
\*               else col for col in df.columns]
renamed(columns, col) ==
    IF col \in Range(field_x(columns)) /\ col # "cap"
    THEN field_dic(columns, col) ELSE col

\* The regressors of 'Y~x1+x2+...': one name for every entry of field_dic.
neutral_formula(columns) == [k \in 1..Len(field_x(columns)) |-> XName(k)]

\* df0.reset_index(level=0, drop=True) with the columns renamed.
neutral_frame(df0) ==
    LET cols == [k \in 1..Len(df0.columns) |-> renamed(df0.columns, df0.columns[k])]
    IN  [index |-> {r[2] : r \in df0.index},
         columns |-> cols,
         data |-> [c \in Range(cols) |->
                     [i \in {r[2] : r \in df0.index} |->
                        df0.data[df0.columns[Position(cols, c)]][CHOOSE r \in df0.index : r[2] = i]]]]

\* field_y = [col for col in df.columns if col[:1] in ['M','r','c','b']]
field_y(columns) == SelectSeq(columns, LAMBDA x : Initial(x) \in {"M", "r", "c", "b"})

NoneResult == [t |-> "None"]
ColumnResult(values) == [t |-> "frame", values |-> values]

\* __single_neutral(col, formula, df).  loc_missing is what .loc does with the
\* labels of df.index that the residuals do not have: NaN rows in the pandas
\* this code was written for, KeyError in later ones.  The frames modelled
\* have at most one regressor column besides cap.
single_neutral_worker(col, formula, df, loc_missing) ==
    LET valid == {i \in df.index : ~isnull(df.data[col][i])}
        x == [i \in valid |-> IF isnull(df.data[formula[1]][i]) THEN Num(0)
                                ELSE df.data[formula[1]][i]]
        y == [i \in valid |-> df.data[col][i]]
    IN  IF col \in {"ret", "cap", "benchmark_returns"} THEN ColumnResult(df.data[col])
        ELSE IF valid = {} THEN NoneResult
        ELSE IF formula = <<>> \/ \E k \in 1..Len(formula) : formula[k] \notin Range(df.columns)
             THEN ColumnResult(df.data[col])
        ELSE IF valid # df.index /\ loc_missing = "KeyError" THEN ColumnResult(df.data[col])
        ELSE ColumnResult([i \in df.index |->
                             IF i \in valid THEN OLS(x, y, valid).resid[i] ELSE NaN])

\* A merge by the order the tasks returned in: the k-th result to come back is
\* written to the k-th column of field_y.
neutral_update_ByCompletion(df, result) ==
    [df EXCEPT !.data =
        [c \in DOMAIN df.data |->
            IF c \in DOMAIN result /\ result[calls.returned[Position(calls.field_y, c)]].t = "frame"
            THEN [i \in df.index |->
                    LET v == result[calls.returned[Position(calls.field_y, c)]].values[i]
                    IN  IF isnull(v) THEN df.data[c][i] ELSE v]
            ELSE df.data[c]]]

\* df.update(pd.concat(result, axis=1)): the None results are left out, and a
\* value of df is overwritten where the result of its column is not missing.
neutral_update(df, result) ==
    [df EXCEPT !.data =
        [c \in DOMAIN df.data |->
            IF c \in DOMAIN result /\ result[c].t = "frame"
            THEN [i \in df.index |->
                    IF isnull(result[c].values[i]) THEN df.data[c][i] ELSE result[c].values[i]]
            ELSE df.data[c]]]

(***************************************************************************)
(* NeutralSpec: one call of single_neutral.  The caller renames the        *)
(* columns and builds the formula, hands one task per column of field_y to *)
(* a pool of n_jobs workers, and merges when every task has returned.      *)
(***************************************************************************)
n_jobs == 6
NeutralCodes == 1..3
NeutralLayouts == {<<"M1", "ind">>, <<"M1", "M2", "ind">>, <<"M1", "cap", "ind">>,
                   <<"cap", "M1", "ind">>, <<"M1", "M2", "ret", "ind">>}
IndValues == {<<Num(0), Num(1), Num(0)>>, <<Num(1), Num(1), Num(1)>>}
NeutralValues == {NaN, Num(3), Num(5)}

NeutralFrames ==
    UNION {{[index |-> {1} \X NeutralCodes, columns |-> layout,
             data |-> [c \in Range(layout) |->
                         [r \in {1} \X NeutralCodes |->
                            CASE c \in {"M1", "M2"} -> m[c][r[2]]
                              [] c = "ind" -> ind[r[2]]
                              [] c = "cap" -> Num(r[2])
                              [] OTHER -> Num(0)]]] :
            m \in [{"M1", "M2"} \cap Range(layout) -> [NeutralCodes -> NeutralValues]],
            ind \in IndValues} : layout \in NeutralLayouts}

NeutralInit ==
    /\ fn = "none"
    /\ args \in {[df0 |-> f] : f \in NeutralFrames}
    /\ env \in {[loc_missing |-> l] : l \in {"NaN", "KeyError"}}
    /\ ret_val = NoResult
    /\ stdout = <<>>
    /\ calls = <<>>

\* single_neutral up to the Parallel call: calls holds the frame handed to the
\* workers, the formula, one entry per task, and the order the tasks return in.
SingleNeutralStart ==
    /\ fn = "none"
    /\ fn' = "single_neutral"
    /\ LET df == neutral_frame(args.df0)
       IN  calls' = [pc |-> "workers", df |-> df,
                     formula |-> neutral_formula(args.df0.columns),
                     field_y |-> field_y(df.columns),
                     result |-> [c \in Range(field_y(df.columns)) |-> [t |-> "pending"]],
                     returned |-> <<>>]
    /\ UNCHANGED <<args, env, ret_val, stdout>>

Running == {c \in DOMAIN calls.result : calls.result[c].t = "running"}

\* A worker of the pool takes the task of column col: print(col).
WorkerStart(col) ==
    /\ fn = "single_neutral" /\ calls.pc = "workers"
    /\ col \in DOMAIN calls.result
    /\ calls.result[col].t = "pending"
    /\ Cardinality(Running) < n_jobs
    /\ \A k \in 1..Len(calls.field_y) :
          k < Position(calls.field_y, col) => calls.result[calls.field_y[k]].t # "pending"
    /\ calls' = [calls EXCEPT !.result[col] = [t |-> "running"]]
    /\ stdout' = Append(stdout, col)
    /\ UNCHANGED <<fn, args, env, ret_val>>

\* The task of column col returns.
WorkerReturn(col) ==
    /\ fn = "single_neutral" /\ calls.pc = "workers"
    /\ col \in DOMAIN calls.result
    /\ calls.result[col].t = "running"
    /\ calls' = [calls EXCEPT !.result[col] =
                    single_neutral_worker(col, calls.formula, calls.df, env.loc_missing),
                                !.returned = Append(@, col)]
    /\ UNCHANGED <<fn, args, env, ret_val, stdout>>

\* Every task has returned: pd.concat raises when there is nothing but None to
\* concatenate, otherwise df.update and return df.
Merge ==
    /\ fn = "single_neutral" /\ calls.pc = "workers"
    /\ \A c \in DOMAIN calls.result : calls.result[c].t \in {"None", "frame"}
    /\ ret_val' = IF \A c \in DOMAIN calls.result : calls.result[c].t = "None"
                  THEN Raise("ValueError")
                  ELSE Return(neutral_update(calls.df, calls.result))
    /\ calls' = [calls EXCEPT !.pc = "done"]
    /\ UNCHANGED <<fn, args, env, stdout>>

NeutralNext ==
    \/ SingleNeutralStart
    \/ \E col \in {"M1", "M2", "ret", "cap"} : WorkerStart(col) \/ WorkerReturn(col)
    \/ Merge

NeutralSpec == NeutralInit /\ [][NeutralNext]_vars

\* The columns single_neutral regresses: those of field_y that are not passed
\* through by name.
Targets(df) == Range(field_y(df.columns)) \ {"ret", "cap", "benchmark_returns"}

AllMissing(df, c) == \A i \in df.index : isnull(df.data[c][i])

\* C5: when single_neutral has finished on a frame with an entirely missing
\* target column, it has returned a frame, the column is still entirely missing
\* in it, and every other target column holds what its own worker made of it.
C5_NeutralPassthrough ==
    (fn = "single_neutral" /\ calls.pc = "done") =>
        \A c \in Targets(calls.df) :
            AllMissing(calls.df, c) =>
               /\ ret_val.ok
               /\ AllMissing(ret_val.val, c)
               /\ \A d \in Targets(calls.df) \ {c} :
                     ret_val.val.data[d] =
                        neutral_update(calls.df,
                           [e \in {d} |-> single_neutral_worker(d, calls.formula, calls.df,
                                                                env.loc_missing)]).data[d]

(***************************************************************************)
(* The entry points score, dynamic_score and regress as a whole: the       *)
(* factor check, the valid_method table, the strategy the method names and *)
(* the except clause around it.                                            *)
(***************************************************************************)
ScoreValidMethods == <<"equal_weighted", "ic_weighted", "icir_weighted", "ret_weighted",
                       "context_weighted">>
RegressValidMethods == <<"common_regress">>

\* '{} is not a valid method. valid methods are: {}'.format(
\*     method, list(valid_method.keys()))
NotValidMessage(method, valid_method) ==
    [method |-> method, text |-> "is not a valid method. valid methods are:",
     valid_methods |-> valid_method]

\* A dispatch that answers an unknown method with None and prints nothing.
valid_method_call_Silent(names, valid_method, method, strategy) ==
    [ret_val |-> IF names = {} THEN Raise("ValueError")
                 ELSE IF method \notin Range(valid_method) THEN Return(None)
                 ELSE strategy,
     calls |-> IF names # {} /\ method \in Range(valid_method) THEN <<method>> ELSE <<>>,
     stdout |-> <<>>]

\* The tail of the three entry points: ValueError without a factor, otherwise
\*     try: return valid_method[method]()
\*     except KeyError: print(...); raise
\* strategy is what valid_method[method]() returns or raises.  A KeyError from
\* inside the strategy goes through the same except clause as one from the
\* table lookup.
valid_method_call(names, valid_method, method, strategy) ==
    [ret_val |-> IF names = {} THEN Raise("ValueError")
                 ELSE IF method \notin Range(valid_method) THEN Raise("KeyError")
                 ELSE strategy,
     calls |-> IF names # {} /\ method \in Range(valid_method) THEN <<method>> ELSE <<>>,
     stdout |-> IF names = {} THEN <<>>
                ELSE IF method \notin Range(valid_method)
                THEN <<NotValidMessage(method, valid_method)>>
                ELSE IF ~strategy.ok /\ strategy.exc = "KeyError"
                THEN <<NotValidMessage(method, valid_method)>>
                ELSE <<>>]

\* mean(axis=1) over the factors, missing values skipped.
RowMean(rank, r) ==
    LET row == [f \in DOMAIN rank |-> rank[f][r]]
        n == Cardinality({f \in DOMAIN row : ~isnull(row[f])})
    IN  IF n = 0 THEN NaN ELSE FDiv(NanSum(row, DOMAIN row), Num(n))

\* score.equal_weighted: (rnk * weight).mean(axis=1) with every weight 1.
score_equal_weighted(fac_ret_data, direction, e) ==
    LET rnk == score_get_rank(fac_ret_data, direction, e.fac_info)
    IN  IF ~rnk.ok THEN rnk
        ELSE Return([r \in fac_ret_data.index |-> RowMean(rnk.val, r)])

\* dynamic_score.equal_weighted:
\* fac_ret_data[factor_names].mul(rnk.mean(axis=1), axis=0).sum(axis=1)
dynamic_score_equal_weighted(fac_ret_data, direction) ==
    LET rnk == dynamic_score_get_rank(fac_ret_data, direction)
        names == factor_names(fac_ret_data)
    IN  IF ~rnk.ok THEN rnk
        ELSE Return([r \in fac_ret_data.index |->
                NanSum([f \in names |-> FMul(fac_ret_data.data[f][r], RowMean(rnk.val, r))],
                       names)])

\* valid_method[method]() of score.  context_weighted is modelled up to
\* fac_ret_data[factor_names + ['cap']], which is where it ends on a panel
\* without a cap column.
score_strategy(fac_ret_data, method, direction, score_window, e) ==
    CASE method = "equal_weighted" -> score_equal_weighted(fac_ret_data, direction, e)
      [] method \in WeightMethods ->
            score_weighted(fac_ret_data, method, direction, score_window, e)
      [] method = "context_weighted" -> context_weighted_fac_ret_cap(fac_ret_data, direction)

\* valid_method[method]() of dynamic_score, context_weighted as in score.
dynamic_score_strategy(fac_ret_data, method, direction, score_window, e) ==
    CASE method = "equal_weighted" -> dynamic_score_equal_weighted(fac_ret_data, direction)
      [] method \in WeightMethods ->
            dynamic_score_weighted(fac_ret_data, method, direction, score_window, e)
      [] method = "context_weighted" -> context_weighted_fac_ret_cap(fac_ret_data, direction)

score(fac_ret_data, method, direction, score_window, e) ==
    valid_method_call(factor_names(fac_ret_data), ScoreValidMethods, method,
                      score_strategy(fac_ret_data, method, direction, score_window, e))

dynamic_score(fac_ret_data, method, direction, score_window, e) ==
    valid_method_call(factor_names(fac_ret_data), ScoreValidMethods, method,
                      dynamic_score_strategy(fac_ret_data, method, direction, score_window, e))

regress_call(fac_ret_data, method) ==
    valid_method_call(factor_names(fac_ret_data), RegressValidMethods, method,
                      regress(fac_ret_data, method))

(***************************************************************************)
(* DispatchSpec: one call of score, dynamic_score or regress with a method *)
(* name that is or is not in the entry point's table, on a panel of one or *)
(* two factors and no cap column.                                          *)
(***************************************************************************)
MethodNames == Range(ScoreValidMethods) \cup Range(RegressValidMethods) \cup
               {"bogus", "Equal_Weighted"}
IcValues == {Num(-1), Frac(1, 2)}

\* M1 is 1, 2, 3 and ret is 0, 1, 0 on every date.
OneFactorPanel ==
    [index |-> GridIndex(NumDates),
     data |-> [c \in {"M1", "ret"} |-> [r \in GridIndex(NumDates) |->
                 IF c = "M1" THEN Num(r[2]) ELSE <<Num(0), Num(1), Num(0)>>[r[2]]]]]

DispatchInit ==
    /\ fn = "none"
    /\ args \in {[fac_ret_data |-> p, method |-> m, direction |-> d, score_window |-> w] :
                    p \in {WeightPanel, OneFactorPanel}, m \in MethodNames,
                    d \in {None, Bool(FALSE), Bool(TRUE)}, w \in Windows}
    /\ env \in {[fac_info |-> <<>>, ic |-> x, q01 |-> x] :
                    x \in [1..NumDates -> [factor_names(args.fac_ret_data) -> IcValues]]}
    /\ ret_val = NoResult
    /\ stdout = <<>>
    /\ calls = <<>>

Score ==
    /\ fn = "none"
    /\ fn' = "score"
    /\ LET r == score(args.fac_ret_data, args.method, args.direction, args.score_window, env)
       IN  /\ ret_val' = r.ret_val
           /\ stdout' = stdout \o r.stdout
           /\ calls' = calls \o r.calls
    /\ UNCHANGED <<args, env>>

DynamicScore ==
    /\ fn = "none"
    /\ fn' = "dynamic_score"
    /\ LET r == dynamic_score(args.fac_ret_data, args.method, args.direction,
                              args.score_window, env)
       IN  /\ ret_val' = r.ret_val
           /\ stdout' = stdout \o r.stdout
           /\ calls' = calls \o r.calls
    /\ UNCHANGED <<args, env>>

\* The fit modelled is that of one factor.
RegressCall ==
    /\ fn = "none"
    /\ args.method \in Range(RegressValidMethods) =>
          Cardinality(factor_names(args.fac_ret_data)) = 1
    /\ fn' = "regress"
    /\ LET r == regress_call(args.fac_ret_data, args.method)
       IN  /\ ret_val' = r.ret_val
           /\ stdout' = stdout \o r.stdout
           /\ calls' = calls \o r.calls
    /\ UNCHANGED <<args, env>>

DispatchNext == Score \/ DynamicScore \/ RegressCall

DispatchSpec == DispatchInit /\ [][DispatchNext]_vars

\* The valid_method table of the entry point called.
ValidMethods == IF fn = "regress" THEN RegressValidMethods ELSE ScoreValidMethods

FirstDateIcir(ic, score_window) ==
    LET mean == rolling_mean(FrameAbs(ic), score_window)
        std == rolling_std(FrameAbs(ic), score_window)
        first == CHOOSE dt \in DOMAIN ic : \A u \in DOMAIN ic : dt <= u
    IN  [dt \in DOMAIN ic |->
            IF dt = first THEN mean[dt]
            ELSE [f \in DOMAIN mean[dt] |-> FDiv(mean[dt][f], std[dt][f])]]

\* C11: an icir_weighted call of score or of dynamic_score returns; the weights
\* of every date are the IC/IR ratios of FirstDateIcir, as they are or divided
\* by their sum over the factors; and on the first date no factor whose IC is
\* there has a missing weight.
C11_FirstDateIcir ==
    (fn \in {"score", "dynamic_score"} /\ args.method = "icir_weighted") =>
        /\ ret_val.ok
        /\ LET icir == FirstDateIcir(env.ic, args.score_window)
               first == CHOOSE dt \in DOMAIN env.ic : \A u \in DOMAIN env.ic : dt <= u
           IN  /\ ret_val.weight \in {icir, DivByRowSum(icir)}
               /\ \A f \in DOMAIN env.ic[first] :
                     ~isnull(env.ic[first][f]) => ~isnull(ret_val.weight[first][f])

(***************************************************************************)
(* RetSpec: ret_weighted of score and of dynamic_score with the caller's   *)
(* num_group.  add_group is not part of the sources; env.q01[n] is the     *)
(* date-by-factor frame of top-group (Q01) mean returns it leads to when   *)
(* the securities are cut into n groups.                                   *)
(***************************************************************************)
\* data=add_group(data,num_group=5) in score.ret_weighted
add_group_num_group == 5
NumGroups == {2, add_group_num_group}
RetValues == {Num(1), Frac(1, 2)}

RetInit ==
    /\ fn = "none"
    /\ args \in {[fac_ret_data |-> WeightPanel, method |-> "ret_weighted",
                  direction |-> Bool(FALSE), score_window |-> w, num_group |-> n] :
                    w \in Windows, n \in NumGroups}
    /\ env \in {[fac_info |-> <<>>, ic |-> NoStat, q01 |-> q] :
                    q \in [NumGroups -> [1..NumDates -> [FactorCodes -> RetValues]]]}
    /\ ret_val = NoResult
    /\ stdout = <<>>
    /\ calls = <<>>

\* score(fac_ret_data, 'ret_weighted', direction, score_window, num_group): the
\* groups are those of add_group(data, num_group=5).
ScoreRetWeighted ==
    /\ fn = "none"
    /\ fn' = "score"
    /\ ret_val' = score_weighted(args.fac_ret_data, args.method, args.direction,
                                 args.score_window,
                                 [env EXCEPT !.q01 = env.q01[add_group_num_group]])
    /\ UNCHANGED <<args, env, stdout, calls>>

\* dynamic_score(fac_ret_data, 'ret_weighted', ..., num_group): the groups are
\* those of add_group(data, num_group=num_group), and no series is kept.
DynamicScoreRetWeighted ==
    /\ fn = "none"
    /\ fn' = "dynamic_score"
    /\ ret_val' = dynamic_score_weighted(args.fac_ret_data, args.method, args.direction,
                                         args.score_window,
                                         [env EXCEPT !.q01 = env.q01[args.num_group]])
    /\ UNCHANGED <<args, env, stdout, calls>>

RetNext == ScoreRetWeighted \/ DynamicScoreRetWeighted

RetSpec == RetInit /\ [][RetNext]_vars

\* C12: a ret_weighted call of score or of dynamic_score returns, and its
\* weights are the top-group returns of the caller's num_group, one column per
\* factor, smoothed by a rolling mean over score_window dates and divided by
\* their sum over the factors.
C12_ReturnWeighted ==
    (fn \in {"score", "dynamic_score"} /\ args.method = "ret_weighted") =>
        /\ ret_val.ok
        /\ \A dt \in DOMAIN ret_val.weight :
              DOMAIN ret_val.weight[dt] = factor_names(args.fac_ret_data)
        /\ ret_val.weight =
              DivByRowSum(rolling_mean(env.q01[args.num_group], args.score_window))

(***************************************************************************)
(* score.context_weighted after the sign adjustment: the decile weights    *)
(* df2 = form_fenceng(...), the bucket shares df3 = fenceng_score(cap) and *)
(* the products of the two zips.  form_fenceng reads a file that is not    *)
(* part of the sources; env.fenceng is the frame it returns, one factor by *)
(* bucket matrix for every date of the file.                               *)
(***************************************************************************)
Buckets == {"cap_high", "cap_low"}

\* The sum inside DataFrame.dot: a missing term makes the sum missing.
RECURSIVE DotSum(_, _)
DotSum(f, S) ==
    IF S = {} THEN Num(0)
    ELSE LET x == CHOOSE y \in S : TRUE
         IN  FAdd(f[x], DotSum(f, S \ {x}))

\* The i-th smallest element of a set of numbers.
Nth(S, i) == CHOOSE x \in S : Cardinality({y \in S : y <= x}) = i

\* pd.cut(x, bins=9, labels=[1..9]) of the rank r among the n ranks 1..n of a
\* date: nine bins of equal width over the range of the ranks, the single rank
\* of a date with one valid cap in the middle one.
cap_bin(r, n) ==
    IF n = 1 THEN 5
    ELSE IF r = 1 THEN 1
    ELSE (9 * (r - 1) + (n - 1) - 1) \div (n - 1)

\* fenceng_score(cap) on a date whose caps differ from each other where they are
\* not missing: the rank of the cap, its bin b as cap_high and |b - 10| as
\* cap_low, 0 for a missing cap, every security's pair divided by its sum.
fenceng_score(cap, index) ==
    [dt \in DatesOf(index) |->
        LET S == Frame(index, dt)
            valid == {r \in S : ~isnull(cap[r])}
            rank(r) == 1 + Cardinality({q \in valid : FLess(cap[q], cap[r])})
            b(r) == cap_bin(rank(r), Cardinality(valid))
            high(r) == IF r \in valid THEN Num(b(r)) ELSE Num(0)
            low(r) == IF r \in valid THEN Num(10 - b(r)) ELSE Num(0)
        IN  [k \in Buckets |->
               [r \in S |-> FDiv(IF k = "cap_high" THEN high(r) ELSE low(r),
                                 FAdd(high(r), low(r)))]]]

\* score.context_weighted.  The date groups of df1 and df2, and then those of
\* their product and df3, are paired by zip: the i-th with the i-th, as many as
\* the shorter list has.  The score rows are joined to fac_ret_data from the
\* left, so the result has the rows that have a score.
score_context_weighted(fac_ret_data, direction, e) ==
    LET head == context_weighted_fac_ret_cap(fac_ret_data, direction)
        names == factor_names(fac_ret_data)
        df1 == head.val.data
        df2 == e.fenceng
        df3 == fenceng_score(head.val.data["cap"], fac_ret_data.index)
        P == DatesOf(fac_ret_data.index)
        R == DOMAIN df2
        k == IF Cardinality(P) <= Cardinality(R) THEN Cardinality(P) ELSE Cardinality(R)
        pos(dt) == Cardinality({u \in P : u <= dt})
        rows == {r \in fac_ret_data.index : pos(r[1]) <= k}
        df_two == [r \in rows |-> [b \in Buckets |->
                     DotSum([f \in names |-> FMul(df1[f][r], df2[Nth(R, pos(r[1]))][f][b])],
                            names)]]
    IN  IF ~head.ok THEN head
        ELSE IF k = 0 THEN Raise("ValueError")
        ELSE Return([r \in rows |->
                DotSum([b \in Buckets |-> FMul(df_two[r][b], df3[r[1]][b][r])], Buckets)])

(***************************************************************************)
(* ContextSpec: score (method context_weighted) on panels of one factor,   *)
(* cap and two securities over any dates of CtxDates, the file of          *)
(* form_fenceng holding any dates of CtxDates.                             *)
(***************************************************************************)
CtxDates == 1..(NumDates + 1)
CtxCodes == 1..2
CtxWeights == {Num(0), Num(1)}

\* M1 is 1, 2 and cap is 1, 2 on every date; cap_missing takes the first cap away.
CtxPanel(P, cap_missing) ==
    [index |-> P \X CtxCodes,
     data |-> [c \in {"M1", "cap", "ret"} |-> [r \in P \X CtxCodes |->
                 CASE c = "M1" -> Num(r[2])
                   [] c = "cap" -> IF cap_missing /\ r[2] = 1 THEN NaN ELSE Num(r[2])
                   [] c = "ret" -> Num(0)]]]

CtxReferences ==
    UNION {[R -> [{"M1"} -> [Buckets -> CtxWeights]]] : R \in SUBSET CtxDates}

ContextInit ==
    /\ fn = "none"
    /\ args \in {[fac_ret_data |-> CtxPanel(P, m), method |-> "context_weighted",
                  direction |-> Bool(b)] :
                    P \in SUBSET CtxDates \ {{}}, m \in BOOLEAN, b \in BOOLEAN}
    /\ env \in {[fac_info |-> <<>>, fenceng |-> x] : x \in CtxReferences}
    /\ ret_val = NoResult
    /\ stdout = <<>>
    /\ calls = <<>>

ScoreContext ==
    /\ fn = "none"
    /\ fn' = "score"
    /\ ret_val' = score_context_weighted(args.fac_ret_data, args.direction, env)
    /\ UNCHANGED <<args, env, stdout, calls>>

ContextNext == ScoreContext

ContextSpec == ContextInit /\ [][ContextNext]_vars

\* The score of row r from the matrices keyed by its own date.
AlignedScore(panel, direction, e, r) ==
    LET head == context_weighted_fac_ret_cap(panel, direction).val
        df3 == fenceng_score(head.data["cap"], panel.index)
        names == factor_names(panel)
    IN  DotSum([b \in Buckets |->
                  FMul(DotSum([f \in names |->
                                 FMul(head.data[f][r], e.fenceng[r[1]][f][b])], names),
                       df3[r[1]][b][r])], Buckets)

\* C13: a context_weighted call of score returns a score for every row of the
\* panel: the one made with the decile weights and bucket shares of the row's
\* own date, and a missing one when the reference has no entry for that date.
C13_ContextDateAlignment ==
    (fn = "score" /\ args.method = "context_weighted") =>
        /\ ret_val.ok
        /\ DOMAIN ret_val.val = args.fac_ret_data.index
        /\ \A r \in args.fac_ret_data.index :
              IF r[1] \in DOMAIN env.fenceng
              THEN ret_val.val[r] = AlignedScore(args.fac_ret_data, args.direction, env, r)
              ELSE isnull(ret_val.val[r])

(***************************************************************************)
(* Order independence of the workers of single_neutral (NeutralSpec).      *)
(***************************************************************************)
\* single_neutral with the workers run one after another in the order of
\* field_y, each on the frame the caller built.
SequentialNeutral(df0, loc_missing) ==
    LET df == neutral_frame(df0)
        formula == neutral_formula(df0.columns)
        cols == Range(field_y(df.columns))
        out == [c \in cols |-> single_neutral_worker(c, formula, df, loc_missing)]
    IN  IF \A c \in cols : out[c].t = "None" THEN Raise("ValueError")
        ELSE Return([df EXCEPT !.data =
                [c \in DOMAIN df.data |->
                    IF c \in cols /\ out[c].t = "frame"
                    THEN [i \in df.index |->
                            IF isnull(out[c].values[i]) THEN df.data[c][i]
                            ELSE out[c].values[i]]
                    ELSE df.data[c]]])

\* C14: in every interleaving of the workers of single_neutral, at most n_jobs
\* run at a time, no step of a worker changes the frame the caller handed out,
\* the caller has merged only when every task had returned, and what the call
\* returns is what running the workers one after another in column order
\* returns, each result in the column of its own name.
C14_OrderIndependence ==
    /\ [](fn = "single_neutral" =>
            /\ Cardinality(Running) <= n_jobs
            /\ calls.df = neutral_frame(args.df0)
            /\ calls.pc = "done" =>
                  /\ \A c \in DOMAIN calls.result : calls.result[c].t \in {"None", "frame"}
                  /\ Len(calls.returned) = Len(calls.field_y)
                  /\ ret_val = SequentialNeutral(args.df0, env.loc_missing))
    /\ [][fn = "single_neutral" => calls'.df = calls.df]_vars

\* Two workers have returned in the reverse of column order, both with
\* residuals, and the call has merged them.
C14_Witness ==
    /\ fn = "single_neutral"
    /\ calls.pc = "done"
    /\ calls.returned = <<"M2", "M1">>
    /\ ret_val.ok
    /\ ret_val.val.data["M1"] # calls.df.data["M1"]
    /\ ret_val.val.data["M2"] # calls.df.data["M2"]
    /\ ret_val.val.data["M1"] # ret_val.val.data["M2"]

(***************************************************************************)
(* util.__get_stock_industry.  csf.get_stock_industry is the remote        *)
(* lookup; calls is the list of the requests sent to it, each the list of  *)
(* codes asked for, and what it answers is the rows of those codes.        *)
(***************************************************************************)
\* if codes_len > 100 / range(0, codes_len, 100)
batch_size == 100

\* codes[i:j], i and j counted from 0.
Slice(codes, i, j) == SubSeq(codes, i + 1, j)

\* cutter = list(range(0, codes_len, 100)); cutter.append(codes_len - 1)
cutter(codes_len) ==
    [k \in 1..((codes_len + batch_size - 1) \div batch_size) |-> (k - 1) * batch_size]
        \o <<codes_len - 1>>

\* dict_cutter = list(zip(cutter[0:-1], cutter[1:]))
dict_cutter(codes_len) ==
    [k \in 1..(Len(cutter(codes_len)) - 1) |->
        <<cutter(codes_len)[k], cutter(codes_len)[k + 1]>>]

(***************************************************************************)
(* IndustrySpec: one call of __get_stock_industry on the list of the codes *)
(* 1..n, n up to MaxCodes; the loop sends one request per step.            *)
(***************************************************************************)
MaxCodes == 205

IndustryInit ==
    /\ fn = "none"
    /\ args \in {[codes |-> [k \in 1..n |-> k]] : n \in 0..MaxCodes}
    /\ env = [dict_cutter |-> <<>>, df |-> <<>>]
    /\ ret_val = NoResult
    /\ stdout = <<>>
    /\ calls = <<>>

\* The call up to the loop; a list of at most 100 codes is sent as it is and
\* the answer returned.
GetStockIndustry ==
    /\ fn = "none"
    /\ fn' = "__get_stock_industry"
    /\ IF Len(args.codes) > batch_size
       THEN /\ env' = [dict_cutter |-> dict_cutter(Len(args.codes)), df |-> <<>>]
            /\ UNCHANGED <<ret_val, calls>>
       ELSE /\ calls' = Append(calls, args.codes)
            /\ ret_val' = Return(args.codes)
            /\ UNCHANGED env
    /\ UNCHANGED <<args, stdout>>

\* One turn of the loop: sub_codes = codes[i:j] is sent and the answer
\* concatenated to df.
IndustryRequest ==
    /\ fn = "__get_stock_industry"
    /\ ret_val = NoResult
    /\ env.dict_cutter # <<>>
    /\ LET sub_codes == Slice(args.codes, Head(env.dict_cutter)[1], Head(env.dict_cutter)[2])
       IN  /\ calls' = Append(calls, sub_codes)
           /\ env' = [dict_cutter |-> Tail(env.dict_cutter), df |-> env.df \o sub_codes]
    /\ UNCHANGED <<fn, args, ret_val, stdout>>

\* return df after the loop.
IndustryReturn ==
    /\ fn = "__get_stock_industry"
    /\ ret_val = NoResult
    /\ Len(args.codes) > batch_size
    /\ env.dict_cutter = <<>>
    /\ ret_val' = Return(env.df)
    /\ UNCHANGED <<fn, args, env, stdout, calls>>

IndustryNext == GetStockIndustry \/ IndustryRequest \/ IndustryReturn

IndustrySpec == IndustryInit /\ [][IndustryNext]_vars

\* C15: when __get_stock_industry has returned, no request held more than 100
\* codes, every code of the list is in exactly one request, and the result
\* covers every code.
C15_BatchCoverage ==
    (fn = "__get_stock_industry" /\ ret_val.ok) =>
        /\ \A k \in 1..Len(calls) : Len(calls[k]) <= batch_size
        /\ \A c \in Range(args.codes) :
              Cardinality({kp \in {<<k, q>> : k \in 1..Len(calls), q \in 1..(batch_size + 1)} :
                              kp[2] <= Len(calls[kp[1]]) /\ calls[kp[1]][kp[2]] = c}) = 1
        /\ Range(ret_val.val) = Range(args.codes)

(***************************************************************************)
(* The formula single_neutral builds (NeutralSpec).                        *)
(***************************************************************************)
\* The residuals of column c on the regressor of a one-regressor formula, over
\* the rows where c is not missing.
Residuals(df, formula, c) ==
    LET valid == {i \in df.index : ~isnull(df.data[c][i])}
        x == [i \in valid |-> IF isnull(df.data[formula[1]][i]) THEN Num(0)
                                ELSE df.data[formula[1]][i]]
        y == [i \in valid |-> df.data[c][i]]
    IN  [i \in df.index |-> IF i \in valid THEN OLS(x, y, valid).resid[i] ELSE NaN]

\* C16: every regressor the formula of single_neutral names is a column of the
\* frame handed to the workers, and the worker of a target column that has no
\* missing value returns the residuals of the column, not the column itself.
C16_FormulaWellFormed ==
    fn = "single_neutral" =>
        /\ \A k \in 1..Len(calls.formula) : calls.formula[k] \in Range(calls.df.columns)
        /\ \A c \in Targets(calls.df) :
              (calls.result[c].t = "frame" /\ \A i \in calls.df.index : ~isnull(calls.df.data[c][i]))
                 => calls.result[c].values = Residuals(calls.df, calls.formula, c)

(***************************************************************************)
(* multiple_factors_analysis and its cache file multi_data.hd5.  The       *)
(* functions of the pipeline are the caller's; applying one is recorded on *)
(* the panel: a panel is the data it started from and the steps taken.     *)
(***************************************************************************)
\* params.get(func.__name__, {}): AttributeError when params is None.
params_get(params, name) ==
    IF params.t = "none" THEN Raise("AttributeError")
    ELSE Return(IF name \in DOMAIN params.d THEN params.d[name] ELSE "{}")

\* X = func(X, **kwargs)
ApplyFunc(X, func, kwargs) == [X EXCEPT !.steps = Append(@, <<func, kwargs>>)]

\* for func in pipeline[:-1]: X = func(X, **(params.get(func.__name__, {})))
RECURSIVE Preprocess(_, _, _)
Preprocess(X, funcs, params) ==
    IF funcs = <<>> THEN Return(X)
    ELSE IF ~params_get(params, Head(funcs)).ok THEN params_get(params, Head(funcs))
    ELSE Preprocess(ApplyFunc(X, Head(funcs), params_get(params, Head(funcs)).val),
                    Tail(funcs), params)

\* result_dict[func.__name__] = func(X, **(params.get(func.__name__, {}))) for
\* func in pipeline[-1]
Analyse(X, funcs, params) ==
    IF funcs # <<>> /\ params.t = "none" THEN Raise("AttributeError")
    ELSE Return([name \in Range(funcs) |-> [panel |-> X, kwargs |-> params_get(params, name).val]])

\* multiple_factors_analysis(data, pipeline, params) with the cache file as it
\* is found: what the call returns or raises, the panel it analysed, and the
\* cache file as it is left.  cache is None while the file does not exist.
multiple_factors_analysis(data, pipeline, params, cache) ==
    LET pre == Preprocess([data |-> data, steps |-> <<>>], pipeline.preprocess, params)
        X == IF cache # None THEN cache ELSE pre.val
    IN  IF cache = None /\ ~pre.ok
        THEN [ret_val |-> pre, cache |-> cache, X |-> None]
        ELSE [ret_val |-> Analyse(X, pipeline.analysis, params), cache |-> X, X |-> X]

(***************************************************************************)
(* PipelineSpec: up to MaxCalls calls of multiple_factors_analysis, one    *)
(* after another, the cache file absent at first.  env.cache is the file   *)
(* and calls the log of the calls made.                                    *)
(***************************************************************************)
MaxCalls == 3
PipelineData == {"d1", "d2"}
Pipelines == {[preprocess |-> pp, analysis |-> <<"ic_analysis">>] :
                 pp \in {<<>>, <<"standardize">>, <<"de_extreme", "standardize">>,
                         <<"standardize", "de_extreme">>}}
PipelineParams == {None, Dict(<<>>), Dict([de_extreme |-> "mad"])}

PipelineInit ==
    /\ fn = "none"
    /\ args = <<>>
    /\ env = [cache |-> None]
    /\ ret_val = NoResult
    /\ stdout = <<>>
    /\ calls = <<>>

MultipleFactorsAnalysis(data, pipeline, params) ==
    /\ Len(calls) < MaxCalls
    /\ fn' = "multiple_factors_analysis"
    /\ args' = [data |-> data, pipeline |-> pipeline, params |-> params]
    /\ LET r == multiple_factors_analysis(data, pipeline, params, env.cache)
       IN  /\ ret_val' = r.ret_val
           /\ env' = [cache |-> r.cache]
           /\ calls' = Append(calls, [args |-> args', cache_before |-> env.cache,
                                      cache_after |-> r.cache, X |-> r.X,
                                      ret_val |-> r.ret_val])
    /\ UNCHANGED stdout

PipelineNext ==
    \E data \in PipelineData, pipeline \in Pipelines, params \in PipelineParams :
        MultipleFactorsAnalysis(data, pipeline, params)

PipelineSpec == PipelineInit /\ [][PipelineNext]_vars

\* The panel the preprocessing functions of the call make of its data: every
\* function once, in list order, with its own entry of params.
Transformed(a) ==
    [data |-> a.data,
     steps |-> [k \in 1..Len(a.pipeline.preprocess) |->
                  <<a.pipeline.preprocess[k],
                    IF a.params.t = "dict" /\ a.pipeline.preprocess[k] \in DOMAIN a.params.d
                    THEN a.params.d[a.pipeline.preprocess[k]] ELSE "{}">>]]

\* What the cache rule asks of one call of the log.
CacheRule(c) ==
    IF c.cache_before = None
    THEN /\ c.X = Transformed(c.args)
         /\ c.cache_after = Transformed(c.args)
         /\ c.ret_val.ok
         /\ \A name \in DOMAIN c.ret_val.val : c.ret_val.val[name].panel = Transformed(c.args)
    ELSE /\ c.X = c.cache_before
         /\ c.cache_after = c.cache_before
         /\ c.ret_val.ok => \A name \in DOMAIN c.ret_val.val :
                               c.ret_val.val[name].panel = c.cache_before

\* C17: every call made with the cache file absent applies its preprocessing
\* functions once each, in order, to a copy of its data, writes the result to
\* the cache and analyses it; every call made with the cache file present
\* leaves the file alone and analyses the cached panel; so every call after the
\* first one that succeeded analyses the panel that call transformed.
C17_PipelineCache ==
    /\ \A k \in 1..Len(calls) : CacheRule(calls[k])
    /\ \A j, k \in 1..Len(calls) :
          (j < k /\ calls[j].ret_val.ok /\ \A i \in 1..(j - 1) : ~calls[i].ret_val.ok)
             => calls[k].X = Transformed(calls[j].args)
====
